---- MODULE Spec2Model ----
(***************************************************************************)
(* The file-operation log of autogpt/commands/file_operations.py: the log  *)
(* reader (operations_from_log), the state fold (file_operations_state),   *)
(* the duplicate gate (is_duplicate_operation), the log writer             *)
(* (log_operation) and the commands write_to_file, append_to_file,         *)
(* delete_file and rename_directory; the commands that do not log; the     *)
(* chunk generator split_file; and checkout_branch of git_operations.py.   *)
(*                                                                         *)
(* A Python str is a sequence of one-character strings.  The one exception *)
(* is an md5 hex digest, which is a single symbol "md5(<text>)": the 32    *)
(* lowercase hex digits contain no whitespace, no '#', no ':' and no part  *)
(* of the legacy marker that could complete it, so split/strip/replace     *)
(* never look inside a digest.  md5 is taken to be collision free on the   *)
(* texts of the model.                                                     *)
(***************************************************************************)
EXTENDS Integers, Sequences, FiniteSets, TLC

VARIABLES
    fs,      \* the file system: a function from the paths of existing files to their content
    last,    \* the last call made and what it returned
    nops,    \* number of calls made so far
    procs,   \* the call each concurrent process is in the middle of (SpecRace)
    split,   \* the split_file generator: its arguments, its locals and what it yielded
    repo     \* the git repository: its heads and the active branch

vars == <<fs, last, nops, procs, split, repo>>

-----------------------------------------------------------------------------
(* Bounds *)

MaxOps == 3          \* commands issued in one behaviour of Spec
MaxLogLines == 2     \* lines of the log a probe of SpecGate starts from
MaxPathLen == 2      \* characters of a path logged in SpecRoundTrip
MaxRaceOps == 4      \* calls started in one behaviour of SpecRace
MaxContentLen == 6   \* characters of a content given to split_file
MaxChunkLen == 3     \* the largest max_length given to split_file

-----------------------------------------------------------------------------
(* Python str primitives *)

\* str.strip() with no argument strips whitespace
IsSpace(c) == c \in {" ", "\n", "\t", "\r"}

RECURSIVE lstrip(_)
lstrip(s) == IF s # <<>> /\ IsSpace(Head(s)) THEN lstrip(Tail(s)) ELSE s

RECURSIVE rstrip(_)
rstrip(s) ==
    IF s # <<>> /\ IsSpace(s[Len(s)]) THEN rstrip(SubSeq(s, 1, Len(s) - 1)) ELSE s

strip(s) == rstrip(lstrip(s))

\* does sub occur in s at index i (1-based)
OccursAt(s, sub, i) ==
    /\ i >= 1
    /\ i + Len(sub) - 1 <= Len(s)
    /\ \A k \in 1..Len(sub) : s[i + k - 1] = sub[k]

\* the lowest index >= i, and the highest index <= i, at which sub occurs in
\* s; 0 when there is none
RECURSIVE find_from(_, _, _)
find_from(s, sub, i) ==
    IF i + Len(sub) - 1 > Len(s) THEN 0
    ELSE IF OccursAt(s, sub, i) THEN i
    ELSE find_from(s, sub, i + 1)

RECURSIVE rfind_from(_, _, _)
rfind_from(s, sub, i) ==
    IF i < 1 THEN 0
    ELSE IF OccursAt(s, sub, i) THEN i
    ELSE rfind_from(s, sub, i - 1)

\* str.find / str.rfind, 1-based, 0 when sub does not occur
find(s, sub) == find_from(s, sub, 1)
rfind(s, sub) == rfind_from(s, sub, Len(s) - Len(sub) + 1)

\* the two parts of s around the occurrence of sep at index i; one part when i = 0
SplitAt(s, sep, i) ==
    IF i = 0 THEN <<s>> ELSE <<SubSeq(s, 1, i - 1), SubSeq(s, i + Len(sep), Len(s))>>

\* s.split(sep, maxsplit=1) and s.rsplit(sep, maxsplit=1): one or two parts
split1(s, sep) == SplitAt(s, sep, find(s, sep))
rsplit1(s, sep) == SplitAt(s, sep, rfind(s, sep))

\* s.replace(old, ""): every non-overlapping occurrence, left to right
RECURSIVE remove_all(_, _)

RemoveAt(s, old, i) ==
    IF i = 0 THEN s
    ELSE SubSeq(s, 1, i - 1) \o remove_all(SubSeq(s, i + Len(old), Len(s)), old)

remove_all(s, old) == RemoveAt(s, old, find(s, old))

\* iterating a text file: the pieces between newlines (the newline itself is
\* whitespace that strip() removes, so it is dropped here)
RECURSIVE lines_of(_)

LinesAt(text, i) ==
    IF i = 0 THEN (IF text = <<>> THEN <<>> ELSE <<text>>)
    ELSE <<SubSeq(text, 1, i - 1)>> \o lines_of(SubSeq(text, i + 1, Len(text)))

lines_of(text) == LinesAt(text, find(text, <<"\n">>))

\* the characters of a str as one TLA+ string
RECURSIVE Flat(_)
Flat(s) == IF s = <<>> THEN "" ELSE Head(s) \o Flat(Tail(s))

\* os.path.dirname: what precedes the last '/'
DirAt(path, i) == IF i = 0 THEN <<>> ELSE SubSeq(path, 1, i - 1)

dirname(path) == DirAt(path, rfind(path, <<"/">>))

-----------------------------------------------------------------------------
(* Literals of the source *)

KindWrite == <<"w", "r", "i", "t", "e">>
KindAppend == <<"a", "p", "p", "e", "n", "d">>
KindDelete == <<"d", "e", "l", "e", "t", "e">>

\* the characters of an operation name
KindStr(operation) ==
    CASE operation = "write" -> KindWrite
      [] operation = "append" -> KindAppend
      [] operation = "delete" -> KindDelete

\* "File Operation Logger"
Marker ==
    <<"F", "i", "l", "e", " ", "O", "p", "e", "r", "a", "t", "i", "o", "n", " ",
      "L", "o", "g", "g", "e", "r">>

\* CFG.file_logger_path
LogPath == <<"d", "/", "l">>

\* Optional[str]
None == [present |-> FALSE, val |-> <<>>]
Some(s) == [present |-> TRUE, val |-> s]

-----------------------------------------------------------------------------
(* The checksum engine *)

text_checksum(text) == <<"md5(" \o Flat(text) \o ")">>

-----------------------------------------------------------------------------
(* The operation log reader *)

\* the log file's text; a missing log file reads as no lines (FileNotFoundError
\* is caught and the generator returns)
log_text(fsys, log_path) == IF log_path \in DOMAIN fsys THEN fsys[log_path] ELSE <<>>

\* the yield of lines 52 and 54, and a line that yields nothing
Yield(op, path, checksum) ==
    [err |-> "none", out |-> <<[op |-> op, path |-> path, checksum |-> checksum]>>]

NoYield(err) == [err |-> err, out |-> <<>>]

\* lines 48-52: path and checksum of a write or append line; r is
\* tail.rsplit(" #", maxsplit=1), and a split that gave one part makes the
\* unpacking raise the ValueError that line 50 catches
write_entry(op, tail, r) ==
    IF Len(r) = 2 THEN Yield(op, strip(r[1]), Some(strip(r[2])))
    ELSE Yield(op, strip(tail), None)

\* lines 46-54: the operation token decides; any other token yields nothing
parse_entry(operation, tail) ==
    IF operation = KindWrite
    THEN write_entry("write", tail, rsplit1(tail, <<" ", "#">>))
    ELSE IF operation = KindAppend
    THEN write_entry("append", tail, rsplit1(tail, <<" ", "#">>))
    ELSE IF operation = KindDelete THEN Yield("delete", strip(tail), None)
    ELSE NoYield("none")

\* line 45: operation, tail = line.split(": ", maxsplit=1) raises ValueError
\* when the split gives one part
parse_parts(parts) ==
    IF Len(parts) # 2 THEN NoYield("ValueError")
    ELSE parse_entry(strip(parts[1]), parts[2])

\* lines 43-45
parse_stripped(line) ==
    IF line = <<>> THEN NoYield("none") ELSE parse_parts(split1(line, <<":", " ">>))

\* One iteration of the loop of operations_from_log: what a line yields
\* (nothing or one entry), or the ValueError that ends the generator.
parse_line(raw) == parse_stripped(strip(remove_all(raw, Marker)))

\* the entries the generator yields, in file order, up to the first line that
\* raises; err is the exception that ends the iteration, if any
RECURSIVE parse_lines(_)

EntriesCons(out, rest) == [err |-> rest.err, entries |-> out \o rest.entries]

parse_next(h, tl) ==
    IF h.err # "none" THEN [err |-> h.err, entries |-> <<>>]
    ELSE EntriesCons(h.out, parse_lines(tl))

parse_lines(ls) ==
    IF ls = <<>> THEN [err |-> "none", entries |-> <<>>]
    ELSE parse_next(parse_line(Head(ls)), Tail(ls))

\* as a reader that does not catch FileNotFoundError would be
operations_from_log_uncaught(fsys, log_path) ==
    IF log_path \notin DOMAIN fsys THEN [err |-> "FileNotFoundError", entries |-> <<>>]
    ELSE parse_lines(lines_of(log_text(fsys, log_path)))

operations_from_log(fsys, log_path) == parse_lines(lines_of(log_text(fsys, log_path)))

-----------------------------------------------------------------------------
(* The state reconstructor *)

EmptyState == [p \in {} |-> None]

\* as a dict assignment that keeps the checksum a path already has would be
state_set_keep_first(state, path, checksum) ==
    [q \in DOMAIN state \cup {path} |-> IF q \in DOMAIN state THEN state[q] ELSE checksum]

\* state[path] = checksum, and del state[path]
state_set(state, path, checksum) ==
    [q \in DOMAIN state \cup {path} |-> IF q = path THEN checksum ELSE state[q]]

\* as a del that leaves the key in the dict would be
state_del_keep(state, path) == state

state_del(state, path) == [q \in DOMAIN state \ {path} |-> state[q]]

\* the loop body of file_operations_state: a dict assignment or a del, which
\* raises KeyError for a key that is not in the dict
RECURSIVE fold_entries(_, _)

\* as a fold that ignores a delete of a path it does not track would be
fold_entry_lenient(e, tl, state) ==
    IF e.op \in {"write", "append"}
    THEN fold_entries(tl, state_set(state, e.path, e.checksum))
    ELSE fold_entries(tl, state_del(state, e.path))

fold_entry(e, tl, state) ==
    IF e.op \in {"write", "append"}
    THEN fold_entries(tl, state_set(state, e.path, e.checksum))
    ELSE IF e.path \in DOMAIN state THEN fold_entries(tl, state_del(state, e.path))
    ELSE [err |-> "KeyError", state |-> state]

fold_entries(entries, state) ==
    IF entries = <<>> THEN [err |-> "none", state |-> state]
    ELSE fold_entry(Head(entries), Tail(entries), state)

\* The generator is lazy: the entries before a malformed line are folded
\* before the ValueError surfaces, so a KeyError among them comes first.
fold_result(generr, folded) ==
    IF folded.err # "none" THEN [err |-> folded.err, state |-> EmptyState]
    ELSE IF generr # "none" THEN [err |-> generr, state |-> EmptyState]
    ELSE folded

fold_generator(gen) == fold_result(gen.err, fold_entries(gen.entries, EmptyState))

\* as a reconstruction that keeps only the paths it finds on disk would be
OnDisk(r, fsys) ==
    [err |-> r.err, state |-> [q \in DOMAIN r.state \cap DOMAIN fsys |-> r.state[q]]]

file_operations_state_on_disk(fsys, log_path) ==
    OnDisk(fold_generator(operations_from_log(fsys, log_path)), fsys)

file_operations_state(fsys, log_path) == fold_generator(operations_from_log(fsys, log_path))

-----------------------------------------------------------------------------
(* The duplicate check gate *)

\* dict.get(key): None for a missing key
state_get(state, filename) == IF filename \in DOMAIN state THEN state[filename] ELSE None

\* as a gate whose delete test is inverted would be
gate_answer_delete_inverted(st, operation, filename, checksum) ==
    IF st.err # "none" THEN [err |-> st.err, dup |-> FALSE]
    ELSE IF operation = "delete" /\ filename \in DOMAIN st.state
    THEN [err |-> "none", dup |-> TRUE]
    ELSE IF operation = "write" /\ state_get(st.state, filename) = checksum
    THEN [err |-> "none", dup |-> TRUE]
    ELSE [err |-> "none", dup |-> FALSE]

\* as a gate that compares checksums for append as it does for write would be
gate_answer_append_gated(st, operation, filename, checksum) ==
    IF st.err # "none" THEN [err |-> st.err, dup |-> FALSE]
    ELSE IF operation = "delete" /\ filename \notin DOMAIN st.state
    THEN [err |-> "none", dup |-> TRUE]
    ELSE IF operation \in {"write", "append"} /\ state_get(st.state, filename) = checksum
    THEN [err |-> "none", dup |-> TRUE]
    ELSE [err |-> "none", dup |-> FALSE]

\* lines 96-100, on the state of line 95 (st.err: the exception line 95 raised)
gate_answer(st, operation, filename, checksum) ==
    IF st.err # "none" THEN [err |-> st.err, dup |-> FALSE]
    ELSE IF operation = "delete" /\ filename \notin DOMAIN st.state
    THEN [err |-> "none", dup |-> TRUE]
    ELSE IF operation = "write" /\ state_get(st.state, filename) = checksum
    THEN [err |-> "none", dup |-> TRUE]
    ELSE [err |-> "none", dup |-> FALSE]

is_duplicate_operation(fsys, operation, filename, checksum) ==
    gate_answer(file_operations_state(fsys, LogPath), operation, filename, checksum)

-----------------------------------------------------------------------------
(* The file system *)

\* open(filename, "w"), open(filename, "a") create the file; os.remove unlinks it
fs_put(fsys, filename, content) ==
    [q \in DOMAIN fsys \cup {filename} |-> IF q = filename THEN content ELSE fsys[q]]

fs_remove(fsys, filename) == [q \in DOMAIN fsys \ {filename} |-> fsys[q]]

fs_read(fsys, filename) == IF filename \in DOMAIN fsys THEN fsys[filename] ELSE <<>>

(* An OS call can fail.  fault names the call of the command's own mutation  *)
(* that fails, logfault the call that fails while the log entry is appended: *)
(*   "open"    os.makedirs or open() raises: nothing has changed;            *)
(*   "write"   f.write raises after open() has created or truncated the file;*)
(*   "read"    the read-back of append_to_file raises;                       *)
(*   "remove"  os.remove raises although the file exists.                    *)
(* os.makedirs("") always raises: a path with no directory part fails.       *)

\* os.makedirs(dirname); open(filename, "w"); f.write(text)
os_write(fsys, filename, text, fault) ==
    IF dirname(filename) = <<>> \/ fault = "open" THEN [ok |-> FALSE, fs |-> fsys]
    ELSE IF fault = "write" THEN [ok |-> FALSE, fs |-> fs_put(fsys, filename, <<>>)]
    ELSE [ok |-> TRUE, fs |-> fs_put(fsys, filename, text)]

\* os.makedirs(dirname); open(filename, "a"); f.write(text)
os_append(fsys, filename, text, fault) ==
    IF dirname(filename) = <<>> \/ fault = "open" THEN [ok |-> FALSE, fs |-> fsys]
    ELSE IF fault = "write"
    THEN [ok |-> FALSE, fs |-> fs_put(fsys, filename, fs_read(fsys, filename))]
    ELSE [ok |-> TRUE, fs |-> fs_put(fsys, filename, fs_read(fsys, filename) \o text)]

\* os.remove(filename): FileNotFoundError for a missing file
os_remove(fsys, filename, fault) ==
    IF filename \notin DOMAIN fsys \/ fault = "remove" THEN [ok |-> FALSE, fs |-> fsys]
    ELSE [ok |-> TRUE, fs |-> fs_remove(fsys, filename)]

-----------------------------------------------------------------------------
(* The log writer and the commands, as functions of the file system.        *)
(* Each returns the file system it leaves, the string it returns (or the    *)
(* exception that leaves it), whether it reached its OS mutation (ran) and  *)
(* whether that mutation completed (mutated).                               *)

ErrorResult == "Error: <err>"

\* f"{operation}: {filename}" plus f" #{checksum}" when a checksum is given,
\* and the newline log_operation adds
log_entry(operation, filename, checksum) ==
    KindStr(operation) \o <<":", " ">> \o filename
        \o (IF checksum.present THEN <<" ", "#">> \o checksum.val ELSE <<>>)
        \o <<"\n">>

Outcome(fsys, result, raised, ran, mutated) ==
    [fs |-> fsys, result |-> result, raised |-> raised, ran |-> ran, mutated |-> mutated]

\* as a log writer that opens the log with mode "w" would be
log_operation_overwrite(fsys, operation, filename, checksum, fault) ==
    os_write(fsys, LogPath, log_entry(operation, filename, checksum), fault).fs

\* append_to_file(CFG.file_logger_path, entry, should_log=False): the append of
\* lines 242-246, whose result string (and so a failure) log_operation drops
log_operation(fsys, operation, filename, checksum, fault) ==
    os_append(fsys, LogPath, log_entry(operation, filename, checksum), fault).fs

\* lines 248-253, after the append a of lines 243-246 has been made
append_logged(a, filename, should_log, fault, logfault) ==
    IF ~a.ok THEN Outcome(a.fs, ErrorResult, "none", TRUE, FALSE)
    ELSE IF ~should_log THEN Outcome(a.fs, "Text appended successfully.", "none", TRUE, TRUE)
    ELSE IF fault = "read" THEN Outcome(a.fs, ErrorResult, "none", TRUE, TRUE)
    ELSE Outcome(log_operation(a.fs, "append", filename,
                               Some(text_checksum(a.fs[filename])), logfault),
                 "Text appended successfully.", "none", TRUE, TRUE)

append_to_file(fsys, filename, text, should_log, fault, logfault) ==
    append_logged(os_append(fsys, filename, text, fault), filename, should_log, fault, logfault)

\* lines 215-225, after the gate has answered; a gate that raised leaves the
\* command by that exception, the call of line 215 being outside the try
write_gated(gate, w, filename, checksum, logfault) ==
    IF gate.err # "none" THEN Outcome(w.before, "", gate.err, FALSE, FALSE)
    ELSE IF gate.dup
    THEN Outcome(w.before, "Error: File has already been updated.", "none", FALSE, FALSE)
    ELSE IF ~w.ok THEN Outcome(w.fs, ErrorResult, "none", TRUE, FALSE)
    ELSE Outcome(log_operation(w.fs, "write", filename, Some(checksum), logfault),
                 "File written to successfully.", "none", TRUE, TRUE)

\* the file system before and after an OS mutation
Mutation(fsys, m) == [before |-> fsys, ok |-> m.ok, fs |-> m.fs]

write_to_file(fsys, filename, text, fault, logfault) ==
    write_gated(is_duplicate_operation(fsys, "write", filename, Some(text_checksum(text))),
                Mutation(fsys, os_write(fsys, filename, text, fault)),
                filename, text_checksum(text), logfault)

\* lines 268-275, after the gate has answered
delete_gated(gate, d, filename, logfault) ==
    IF gate.err # "none" THEN Outcome(d.before, "", gate.err, FALSE, FALSE)
    ELSE IF gate.dup
    THEN Outcome(d.before, "Error: File has already been deleted.", "none", FALSE, FALSE)
    ELSE IF ~d.ok THEN Outcome(d.fs, ErrorResult, "none", TRUE, FALSE)
    ELSE Outcome(log_operation(d.fs, "delete", filename, None, logfault),
                 "File deleted successfully.", "none", TRUE, TRUE)

delete_file(fsys, filename, fault, logfault) ==
    delete_gated(is_duplicate_operation(fsys, "delete", filename, None),
                 Mutation(fsys, os_remove(fsys, filename, fault)), filename, logfault)

\* os.rename(old_name, new_name) names two variables that do not exist: the
\* NameError is caught by "except Exception", whose f-string names old_name
\* again and raises NameError out of the command.
rename_directory(fsys, old_path, new_path) ==
    Outcome(fsys, "", "NameError", FALSE, FALSE)

-----------------------------------------------------------------------------
(* The calls of the model *)

PathA == <<"d", "/", "a">>
PathB == <<"d", "/", "b">>
PathSp == <<"d", "/", "a", " ">>     \* "d/a " with a trailing blank
PathBare == <<"a">>                  \* no directory part

\* the file names the commands are called with
Paths == {PathA, PathSp, LogPath, PathBare}

\* the texts written and appended
Texts == {<<>>, <<"x">>}

Faults == {"none", "open", "write", "read", "remove"}
\* the append of the log entry fails at os.makedirs or open(); a failure of its
\* f.write differs only in leaving an empty log file where there was none
LogFaults == {"none", "open"}

NoCall ==
    [cmd |-> "none", op |-> "", filename |-> <<>>, text |-> <<>>, checksum |-> None,
     result |-> "", raised |-> "none", dup |-> FALSE, ran |-> FALSE, mutated |-> FALSE,
     fault |-> "none", logfault |-> "none"]

\* the record of a command call with outcome o
CommandCall(cmd, filename, text, fault, logfault, o) ==
    [NoCall EXCEPT !.cmd = cmd, !.filename = filename, !.text = text,
                   !.result = o.result, !.raised = o.raised, !.ran = o.ran,
                   !.mutated = o.mutated, !.fault = fault, !.logfault = logfault]

\* A fault is chosen only where the call it names is made: at most one call
\* fails, a write of nothing does not fail, nothing fails in a call that stops
\* at the gate or at a missing directory or file, and the append of the log
\* entry fails only when it is made.
FaultChoice(text, fault, logfault) ==
    /\ fault # "none" => logfault = "none"
    /\ fault = "write" => text # <<>>

FaultApplies(o, fault, logfault) ==
    /\ ~o.ran => fault = "none"
    /\ ~o.mutated => logfault = "none"

TypeOK ==
    /\ nops \in 0..(MaxOps + MaxRaceOps)
    /\ DOMAIN procs \subseteq {1, 2}
    /\ \A p \in DOMAIN fs : Len(fs[p]) >= 0
    /\ last.cmd \in {"none", "write_to_file", "append_to_file", "delete_file",
                     "rename_directory", "is_duplicate_operation", "log_operation",
                     "copy_file", "rename_file", "create_directory", "delete_directory",
                     "checkout_branch"}

\* one process: no call is ever in the middle of its steps
NoProcs == <<>>

\* no split_file generator has been created, and there is no repository
NoSplit == [pc |-> "none"]
NoRepo == [exists |-> FALSE, heads |-> {}, active |-> <<>>]

Init ==
    /\ fs = [p \in {} |-> <<>>]
    /\ last = NoCall
    /\ nops = 0
    /\ procs = NoProcs
    /\ split = NoSplit
    /\ repo = NoRepo

\* a call that returned o: the file system it left and the record of the call
Returns(cmd, filename, text, fault, logfault, o) ==
    /\ FaultApplies(o, fault, logfault)
    /\ fs' = o.fs
    /\ last' = CommandCall(cmd, filename, text, fault, logfault, o)
    /\ nops' = nops + 1
    /\ UNCHANGED <<procs, split, repo>>

WriteToFile(filename, text, fault, logfault) ==
    /\ nops < MaxOps
    /\ fault \in {"none", "open", "write"}
    /\ FaultChoice(text, fault, logfault)
    /\ dirname(filename) = <<>> => fault = "none"
    /\ Returns("write_to_file", filename, text, fault, logfault,
               write_to_file(fs, filename, text, fault, logfault))

AppendToFile(filename, text, fault, logfault) ==
    /\ nops < MaxOps
    /\ fault \in {"none", "open", "write", "read"}
    /\ FaultChoice(text, fault, logfault)
    /\ dirname(filename) = <<>> => fault = "none"
    /\ Returns("append_to_file", filename, text, fault, logfault,
               append_to_file(fs, filename, text, TRUE, fault, logfault))

DeleteFile(filename, fault, logfault) ==
    /\ nops < MaxOps
    /\ fault \in {"none", "remove"}
    /\ FaultChoice(<<>>, fault, logfault)
    /\ filename \notin DOMAIN fs => fault = "none"
    /\ Returns("delete_file", filename, <<>>, fault, logfault,
               delete_file(fs, filename, fault, logfault))

\* filename and text of the call record hold old_path and new_path
RenameDirectory(old_path, new_path) ==
    /\ nops < MaxOps
    /\ Returns("rename_directory", old_path, new_path, "none", "none",
               rename_directory(fs, old_path, new_path))

Next ==
    \/ \E filename \in Paths, text \in Texts, fault \in Faults, logfault \in LogFaults :
          WriteToFile(filename, text, fault, logfault)
    \/ \E filename \in Paths, text \in Texts, fault \in Faults, logfault \in LogFaults :
          AppendToFile(filename, text, fault, logfault)
    \/ \E filename \in Paths, fault \in Faults, logfault \in LogFaults :
          DeleteFile(filename, fault, logfault)
    \/ \E old_path \in {PathA}, new_path \in {PathB} : RenameDirectory(old_path, new_path)

Spec == Init /\ [][Next]_vars

-----------------------------------------------------------------------------
(* SpecGate: is_duplicate_operation probed on a log that earlier sessions,  *)
(* older versions of the tool or other programs left behind.                *)

Md5X == text_checksum(<<"x">>)
Md5Empty == text_checksum(<<>>)

\* the lines such a log is made of: entries as log_operation writes them, an
\* entry with no checksum, an entry behind the legacy marker, a line of an
\* unknown kind and a line with no ": "
GateLines ==
    { log_entry("write", PathA, Some(Md5X)),
      log_entry("append", PathA, Some(Md5Empty)),
      log_entry("write", PathB, None),
      log_entry("delete", PathA, None),
      Marker \o log_entry("write", PathB, Some(Md5X)),
      <<"f", "o", "o", ":", " ", "d", "/", "a", "\n">>,
      <<"x", "\n">> }

RECURSIVE GateLogs(_)
GateLogs(n) ==
    IF n = 0 THEN {<<>>}
    ELSE {<<>>} \cup {line \o rest : line \in GateLines, rest \in GateLogs(n - 1)}

GatePaths == {PathA, PathB}
GateChecksums == {None, Some(Md5X), Some(Md5Empty)}
Operations == {"write", "append", "delete"}

\* a log in which a path is deleted twice with no write or append in between
DoubleDeleteLog ==
    log_entry("write", PathA, Some(Md5X))
        \o log_entry("delete", PathA, None) \o log_entry("delete", PathA, None)

InitGate ==
    /\ fs \in {[p \in {} |-> <<>>]}
                \cup {[p \in {LogPath} |-> text] : text \in GateLogs(MaxLogLines) \cup {DoubleDeleteLog}}
    /\ last = NoCall
    /\ nops = 0
    /\ procs = NoProcs
    /\ split = NoSplit
    /\ repo = NoRepo

\* the record of a call of is_duplicate_operation that answered g
GateCall(operation, filename, checksum, g) ==
    [NoCall EXCEPT !.cmd = "is_duplicate_operation", !.op = operation,
                   !.filename = filename, !.checksum = checksum,
                   !.raised = g.err, !.dup = g.dup]

IsDuplicateOperation(operation, filename, checksum) ==
    /\ last' = GateCall(operation, filename, checksum,
                        is_duplicate_operation(fs, operation, filename, checksum))
    /\ UNCHANGED <<fs, nops, procs, split, repo>>

NextGate ==
    \E operation \in Operations, filename \in GatePaths, checksum \in GateChecksums :
        IsDuplicateOperation(operation, filename, checksum)

SpecGate == InitGate /\ [][NextGate]_vars

-----------------------------------------------------------------------------
(* SpecRoundTrip: one entry written by log_operation and read back.         *)

\* the characters paths are made of: a letter, the separators of the log
\* format and whitespace
PathChars == {"a", " ", "#", ":", "\n"}

StrUpTo(chars, n) == UNION {[1..k -> chars] : k \in 0..n}

\* every short path, and a path that is the legacy marker
RoundTripPaths == StrUpTo(PathChars, MaxPathLen) \cup {Marker}

InitRoundTrip ==
    /\ fs \in {[p \in {} |-> <<>>],
               [p \in {LogPath} |-> log_entry("write", PathA, Some(Md5X))]}
    /\ last = NoCall
    /\ nops = 0
    /\ procs = NoProcs
    /\ split = NoSplit
    /\ repo = NoRepo

LogOperation(operation, filename, checksum) ==
    /\ last.cmd = "none"
    /\ operation = "delete" => checksum = None
    /\ fs' = log_operation(fs, operation, filename, checksum, "none")
    /\ last' = [NoCall EXCEPT !.cmd = "log_operation", !.op = operation,
                              !.filename = filename, !.checksum = checksum]
    /\ nops' = nops + 1
    /\ UNCHANGED <<procs, split, repo>>

NextRoundTrip ==
    \E operation \in Operations, filename \in RoundTripPaths, checksum \in {None, Some(Md5X)} :
        LogOperation(operation, filename, checksum)

SpecRoundTrip == InitRoundTrip /\ [][NextRoundTrip]_vars

-----------------------------------------------------------------------------
(* SpecSurface: the logged commands together with commands that do not log: *)
(* copy_file, rename_file, create_directory, delete_directory and           *)
(* rename_directory.  No OS call fails here.  All files are in directory d. *)

DirD == <<"d">>

\* the entry of a directory that create_directory made
Dir == <<"<dir>">>

\* A directory exists when create_directory made it or a file is in it.  (No
\* step of SpecSurface empties a directory that os.makedirs made and leaves
\* it: every delete_file appends to the log, which is in the same directory.)
DirExists(fsys, dir) ==
    dir = <<>> \/ dir \in DOMAIN fsys \/ \E q \in DOMAIN fsys : dirname(q) = dir

IsFile(fsys, path) == path \in DOMAIN fsys /\ fsys[path] # Dir

\* shutil.copy2(source, destination): FileNotFoundError for a missing source
\* or destination directory, SameFileError when both name one file
copy_file(fsys, source, destination) ==
    IF ~IsFile(fsys, source) \/ ~DirExists(fsys, dirname(destination))
    THEN Outcome(fsys, "File '<source>' not found.", "none", TRUE, FALSE)
    ELSE IF source = destination
    THEN Outcome(fsys, "Error copying file '<source>' to '<destination>': <e>", "none",
                 TRUE, FALSE)
    ELSE Outcome(fs_put(fsys, destination, fsys[source]),
                 "File '<source>' copied to '<destination>'.", "none", TRUE, TRUE)

\* os.rename(old_path, new_path) replaces new_path; the success message then
\* names old_name, which does not exist, and the NameError is caught by
\* "except Exception": the file has been renamed and an error is returned
rename_file(fsys, old_path, new_path) ==
    IF ~IsFile(fsys, old_path) \/ ~DirExists(fsys, dirname(new_path))
    THEN Outcome(fsys, "File '<old_path>' not found.", "none", TRUE, FALSE)
    ELSE Outcome(fs_put(fs_remove(fsys, old_path), new_path, fsys[old_path]),
                 "Error renaming file '<old_path>' to '<new_path>': <e>", "none", TRUE, TRUE)

\* os.makedirs(directory_path_name) without exist_ok
create_directory(fsys, directory_path_name) ==
    IF DirExists(fsys, directory_path_name)
    THEN Outcome(fsys, "Directory '<directory_path_name>' already exists.", "none",
                 TRUE, FALSE)
    ELSE Outcome(fs_put(fsys, directory_path_name, Dir),
                 "Directory '<directory_path_name>' created.", "none", TRUE, TRUE)

\* shutil.rmtree(directory_path): the directory and every file in it
delete_directory(fsys, directory_path) ==
    IF ~DirExists(fsys, directory_path)
    THEN Outcome(fsys, "Directory '<directory_path>' not found.", "none", TRUE, FALSE)
    ELSE Outcome([q \in {r \in DOMAIN fsys : r # directory_path /\ dirname(r) # directory_path}
                     |-> fsys[q]],
                 "Directory '<directory_path>' deleted.", "none", TRUE, TRUE)

SurfacePaths == {PathA, LogPath}
SurfaceTexts == {<<"x">>}

\* filename and text of the call record hold the two paths of the call
CopyFile(source, destination) ==
    /\ nops < MaxOps
    /\ Returns("copy_file", source, destination, "none", "none",
               copy_file(fs, source, destination))

RenameFile(old_path, new_path) ==
    /\ nops < MaxOps
    /\ Returns("rename_file", old_path, new_path, "none", "none",
               rename_file(fs, old_path, new_path))

CreateDirectory(directory_path_name) ==
    /\ nops < MaxOps
    /\ Returns("create_directory", directory_path_name, <<>>, "none", "none",
               create_directory(fs, directory_path_name))

DeleteDirectory(directory_path) ==
    /\ nops < MaxOps
    /\ Returns("delete_directory", directory_path, <<>>, "none", "none",
               delete_directory(fs, directory_path))

NextSurface ==
    \/ \E filename \in SurfacePaths, text \in SurfaceTexts :
          WriteToFile(filename, text, "none", "none")
    \/ \E filename \in SurfacePaths, text \in SurfaceTexts :
          AppendToFile(filename, text, "none", "none")
    \/ \E filename \in SurfacePaths : DeleteFile(filename, "none", "none")
    \/ \E source \in SurfacePaths, destination \in SurfacePaths : CopyFile(source, destination)
    \/ \E old_path \in SurfacePaths, new_path \in SurfacePaths : RenameFile(old_path, new_path)
    \/ CreateDirectory(DirD)
    \/ DeleteDirectory(DirD)
    \/ RenameDirectory(DirD, <<"e">>)

SpecSurface == Init /\ [][NextSurface]_vars

-----------------------------------------------------------------------------
(* SpecLogged: one process, starting without a log, calls the three logged  *)
(* commands on files other than the log; the append of the log entry never  *)
(* fails, the command's own OS calls may.                                   *)

\* "d/\ndelete: b": a file name with a line break in it, which Linux accepts
PathNl == <<"d", "/", "\n", "d", "e", "l", "e", "t", "e", ":", " ", "b">>

LoggedPaths == (Paths \ {LogPath}) \cup {PathNl}

NextLogged ==
    \/ \E filename \in LoggedPaths, text \in Texts, fault \in Faults :
          WriteToFile(filename, text, fault, "none")
    \/ \E filename \in LoggedPaths, text \in Texts, fault \in Faults :
          AppendToFile(filename, text, fault, "none")
    \/ \E filename \in LoggedPaths, fault \in Faults : DeleteFile(filename, fault, "none")

SpecLogged == Init /\ [][NextLogged]_vars

-----------------------------------------------------------------------------
(* SpecSplit: the generator split_file(content, max_length, overlap), as     *)
(* list() in ingest_file drives it: one step per iteration of its loop.      *)
(* The arguments satisfy max_length >= 1 and 0 <= overlap < max_length.      *)

\* content[a:b] for 0 <= a: Python clips b to the length, and gives "" when
\* b <= a
Slice(s, a, b) == SubSeq(s, a + 1, IF b < Len(s) THEN b ELSE Len(s))

SplitChars == {"a", "b"}

\* split_file is a generator: before its first iteration only its arguments
\* are bound; chunks are the strings it has yielded, each with the value of
\* start it was cut at
InitSplit ==
    /\ fs = [p \in {} |-> <<>>]
    /\ last = NoCall
    /\ nops = 0
    /\ procs = NoProcs
    /\ repo = NoRepo
    /\ \E content \in StrUpTo(SplitChars, MaxContentLen), max_length \in 1..MaxChunkLen,
          overlap \in 0..(MaxChunkLen - 1) :
          /\ overlap < max_length
          /\ split = [pc |-> "loop", content |-> content, max_length |-> max_length,
                      overlap |-> overlap, start |-> 0, chunks |-> <<>>]

\* line 136: if end + overlap < content_length, with end = start + max_length
more_follows(content, start, max_length, overlap) ==
    start + max_length + overlap < Len(content)

\* lines 137 and 139: the chunk of an iteration
split_chunk(content, start, max_length, overlap) ==
    IF more_follows(content, start, max_length, overlap)
    THEN Slice(content, start, start + max_length + overlap - 1)
    ELSE Slice(content, start, Len(content))

\* lines 142-143: the last chunk is dropped when it is no longer than overlap
consumed(content, start, max_length, overlap) ==
    /\ ~more_follows(content, start, max_length, overlap)
    /\ Len(split_chunk(content, start, max_length, overlap)) <= overlap

\* as a step that leaves start where it is would be
next_start_stuck(start, max_length, overlap) == start

\* line 146: start += max_length - overlap
next_start(start, max_length, overlap) == start + max_length - overlap

\* the loop never runs more often than the content has characters; the guard
\* stops a loop that would
MaxChunks == MaxContentLen + 1

\* lines 134-146: an iteration that yields its chunk
SplitYield ==
    /\ split.pc = "loop"
    /\ split.start < Len(split.content)
    /\ ~consumed(split.content, split.start, split.max_length, split.overlap)
    /\ Len(split.chunks) < MaxChunks
    /\ split' = [split EXCEPT
                   !.chunks = Append(@, [start |-> split.start,
                                         text |-> split_chunk(split.content, split.start,
                                                              split.max_length, split.overlap)]),
                   !.start = next_start(split.start, split.max_length, split.overlap)]
    /\ UNCHANGED <<fs, last, nops, procs, repo>>

\* lines 142-143: the break
SplitBreak ==
    /\ split.pc = "loop"
    /\ split.start < Len(split.content)
    /\ consumed(split.content, split.start, split.max_length, split.overlap)
    /\ split' = [split EXCEPT !.pc = "done"]
    /\ UNCHANGED <<fs, last, nops, procs, repo>>

\* line 134: the loop condition is false and the generator returns
SplitReturn ==
    /\ split.pc = "loop"
    /\ ~(split.start < Len(split.content))
    /\ split' = [split EXCEPT !.pc = "done"]
    /\ UNCHANGED <<fs, last, nops, procs, repo>>

NextSplit == SplitYield \/ SplitBreak \/ SplitReturn

SpecSplit == InitSplit /\ [][NextSplit]_vars

\* list() asks for the next chunk until the generator returns
SpecSplitFair == SpecSplit /\ WF_vars(NextSplit)

-----------------------------------------------------------------------------
(* SpecGit: checkout_branch of autogpt/commands/git_operations.py on a      *)
(* repository that other commands and programs have left in any state.  Of  *)
(* the repository the command reads and changes the local heads and the     *)
(* branch HEAD points to.  HEAD resolves to a commit when its branch is one *)
(* of the heads; in a repository without commits it is not.                 *)

Branches == {<<"m">>, <<"b">>, <<"c">>, <<"d">>}

\* "checkout": git checkout fails, as it does when local changes would be
\* overwritten
GitFaults == {"none", "checkout"}

Repos ==
    {NoRepo} \cup {[exists |-> TRUE, heads |-> h, active |-> a] :
                      h \in SUBSET Branches, a \in Branches}

InitGit ==
    /\ fs = [p \in {} |-> <<>>]
    /\ last = NoCall
    /\ nops = 0
    /\ procs = NoProcs
    /\ split = NoSplit
    /\ repo \in Repos

Created == "Created a new branch '<branch_name>' and switched to it."
Switched == "Switched to the branch '<branch_name>'."

GitOutcome(r, result) == [repo |-> r, result |-> result]

\* repo.create_head(branch_name): a new head at the commit of HEAD; HEAD
\* itself is left where it is
create_head(r, branch_name) == [r EXCEPT !.heads = @ \cup {branch_name}]

\* repo.heads[branch_name].checkout()
head_checkout(r, branch_name) == [r EXCEPT !.active = branch_name]

\* lines 187-200: Repo(repo_path) raises when there is no repository, and
\* create_head raises when HEAD does not resolve to a commit; every exception
\* is returned as "Error: ..."
checkout_branch(r, branch_name, fault) ==
    IF ~r.exists THEN GitOutcome(r, ErrorResult)
    ELSE IF branch_name \notin r.heads
    THEN IF r.active \notin r.heads THEN GitOutcome(r, ErrorResult)
         ELSE GitOutcome(create_head(r, branch_name), Created)
    ELSE IF fault = "checkout" THEN GitOutcome(r, ErrorResult)
    ELSE GitOutcome(head_checkout(r, branch_name), Switched)

\* filename of the call record holds branch_name
GitCall(branch_name, fault, o) ==
    /\ repo' = o.repo
    /\ last' = [NoCall EXCEPT !.cmd = "checkout_branch", !.filename = branch_name,
                              !.fault = fault, !.result = o.result]

CheckoutBranch(branch_name, fault) ==
    /\ fault = "checkout" => (repo.exists /\ branch_name \in repo.heads)
    /\ GitCall(branch_name, fault, checkout_branch(repo, branch_name, fault))
    /\ UNCHANGED <<fs, nops, procs, split>>

NextGit == \E branch_name \in Branches, fault \in GitFaults : CheckoutBranch(branch_name, fault)

SpecGit == InitGit /\ [][NextGit]_vars

-----------------------------------------------------------------------------
(* SpecRace: two processes share the workspace and the log.  Nothing in the  *)
(* source locks either, so the calls of the processes interleave between     *)
(* the gate check, the OS mutation, the read-back of an append and the       *)
(* append of the log entry.  Each of these steps is taken whole: the gate    *)
(* reads the log as it is at one instant, and a line is appended untorn.     *)

Procs == {1, 2}

RacePaths == {PathA}

\* what a process is doing: pc is "idle" between calls, and after a call cmd,
\* filename, text and result are those of the call it finished last
Idle ==
    [pc |-> "idle", cmd |-> "none", filename |-> <<>>, text |-> <<>>,
     checksum |-> None, result |-> "", raised |-> "none"]

InitRace ==
    /\ fs = [p \in {} |-> <<>>]
    /\ last = NoCall
    /\ nops = 0
    /\ procs = [p \in Procs |-> Idle]
    /\ split = NoSplit
    /\ repo = NoRepo

\* process p is at step pc of the call cmd(filename, text)
AtStep(pc, cmd, filename, text, checksum) ==
    [Idle EXCEPT !.pc = pc, !.cmd = cmd, !.filename = filename, !.text = text,
                 !.checksum = checksum]

\* the call of process p returns result, or raises
Finish(p, cmd, filename, text, checksum, o) ==
    /\ procs' = [procs EXCEPT ![p] = [AtStep("idle", cmd, filename, text, checksum)
                                         EXCEPT !.result = o.result, !.raised = o.raised]]
    /\ last' = CommandCall(cmd, filename, text, "none", "none", o)

\* the gate has answered g: the call leaves by its exception or returns the
\* duplicate result, or goes on to its OS mutation
Gated(p, cmd, filename, text, checksum, g, dupResult) ==
    /\ fs' = fs
    /\ IF g.err # "none"
       THEN Finish(p, cmd, filename, text, checksum, Outcome(fs, "", g.err, FALSE, FALSE))
       ELSE IF g.dup
       THEN Finish(p, cmd, filename, text, checksum, Outcome(fs, dupResult, "none", FALSE, FALSE))
       ELSE /\ procs' = [procs EXCEPT ![p] = AtStep("mutate", cmd, filename, text, checksum)]
            /\ last' = last

\* lines 214-216: write_to_file computes the checksum and asks the gate
RaceWriteGate(p, filename, text) ==
    /\ nops < MaxRaceOps
    /\ procs[p].pc = "idle"
    /\ nops' = nops + 1
    /\ Gated(p, "write_to_file", filename, text, Some(text_checksum(text)),
             is_duplicate_operation(fs, "write", filename, Some(text_checksum(text))),
             "Error: File has already been updated.")
    /\ UNCHANGED <<split, repo>>

\* lines 268-269: delete_file asks the gate
RaceDeleteGate(p, filename) ==
    /\ nops < MaxRaceOps
    /\ procs[p].pc = "idle"
    /\ nops' = nops + 1
    /\ Gated(p, "delete_file", filename, <<>>, None,
             is_duplicate_operation(fs, "delete", filename, None),
             "Error: File has already been deleted.")
    /\ UNCHANGED <<split, repo>>

\* the OS mutation m has been attempted: on failure the call returns the error
\* string, otherwise it goes on to step next
Mutated(p, m, next) ==
    /\ fs' = m.fs
    /\ IF ~m.ok
       THEN Finish(p, procs[p].cmd, procs[p].filename, procs[p].text, procs[p].checksum,
                   Outcome(m.fs, ErrorResult, "none", TRUE, FALSE))
       ELSE /\ procs' = [procs EXCEPT ![p].pc = next]
            /\ last' = last

\* lines 218-221 of write_to_file and line 271 of delete_file
RaceMutate(p) ==
    /\ procs[p].pc = "mutate"
    /\ nops' = nops
    /\ IF procs[p].cmd = "write_to_file"
       THEN Mutated(p, os_write(fs, procs[p].filename, procs[p].text, "none"), "log")
       ELSE Mutated(p, os_remove(fs, procs[p].filename, "none"), "log")
    /\ UNCHANGED <<split, repo>>

\* lines 242-246: append_to_file has no gate; its first step is the append
RaceAppend(p, filename, text) ==
    /\ nops < MaxRaceOps
    /\ procs[p].pc = "idle"
    /\ nops' = nops + 1
    /\ LET q == [procs EXCEPT ![p] = AtStep("mutate", "append_to_file", filename, text, None)]
       IN  IF dirname(filename) = <<>>
           THEN /\ fs' = fs
                /\ Finish(p, "append_to_file", filename, text, None,
                          Outcome(fs, ErrorResult, "none", TRUE, FALSE))
           ELSE /\ fs' = os_append(fs, filename, text, "none").fs
                /\ procs' = [q EXCEPT ![p].pc = "readback"]
                /\ last' = last
    /\ UNCHANGED <<split, repo>>

\* lines 249-250: the read-back; another process may have removed the file
RaceReadBack(p) ==
    /\ procs[p].pc = "readback"
    /\ nops' = nops
    /\ fs' = fs
    /\ IF procs[p].filename \notin DOMAIN fs
       THEN Finish(p, procs[p].cmd, procs[p].filename, procs[p].text, None,
                   Outcome(fs, ErrorResult, "none", TRUE, TRUE))
       ELSE /\ procs' = [procs EXCEPT ![p].pc = "log",
                                      ![p].checksum = Some(text_checksum(fs[procs[p].filename]))]
            /\ last' = last
    /\ UNCHANGED <<split, repo>>

\* the operation name and the success string of a command
OperationOf(cmd) ==
    CASE cmd = "write_to_file" -> "write"
      [] cmd = "append_to_file" -> "append"
      [] cmd = "delete_file" -> "delete"

SuccessOf(cmd) ==
    CASE cmd = "write_to_file" -> "File written to successfully."
      [] cmd = "append_to_file" -> "Text appended successfully."
      [] cmd = "delete_file" -> "File deleted successfully."

\* lines 222-223, 251-253 and 272-273: log_operation, then the success string
RaceLog(p) ==
    /\ procs[p].pc = "log"
    /\ nops' = nops
    /\ fs' = log_operation(fs, OperationOf(procs[p].cmd), procs[p].filename,
                           procs[p].checksum, "none")
    /\ Finish(p, procs[p].cmd, procs[p].filename, procs[p].text, procs[p].checksum,
              Outcome(fs, SuccessOf(procs[p].cmd), "none", TRUE, TRUE))
    /\ UNCHANGED <<split, repo>>

NextRace ==
    \/ \E p \in Procs, filename \in RacePaths, text \in Texts : RaceWriteGate(p, filename, text)
    \/ \E p \in Procs, filename \in RacePaths : RaceDeleteGate(p, filename)
    \/ \E p \in Procs, filename \in RacePaths, text \in Texts : RaceAppend(p, filename, text)
    \/ \E p \in Procs : RaceMutate(p)
    \/ \E p \in Procs : RaceReadBack(p)
    \/ \E p \in Procs : RaceLog(p)

SpecRace == InitRace /\ [][NextRace]_vars

-----------------------------------------------------------------------------
(* Properties *)

Written == "File written to successfully."
AlreadyUpdated == "Error: File has already been updated."
Appended == "Text appended successfully."
Deleted == "File deleted successfully."
AlreadyDeleted == "Error: File has already been deleted."

IsProbe == last.cmd = "is_duplicate_operation"
LogMissing == LogPath \notin DOMAIN fs

\* a call in which no OS call failed
NoFault(call) == call.fault = "none" /\ call.logfault = "none"

\* C1 (as claimed): when write_to_file(P, C) is called twice in succession and
\* the first call succeeds (it returns success and nothing in it failed), the
\* second call returns the duplicate result and leaves the file system, the
\* log included, as it was.
C1_SecondWriteIsNoOp ==
    [][ ( /\ last.cmd = "write_to_file" /\ last.result = Written /\ NoFault(last)
          /\ last'.cmd = "write_to_file"
          /\ last'.filename = last.filename /\ last'.text = last.text )
        => (last'.result = AlreadyUpdated /\ fs' = fs) ]_vars

C3_FailedMutationLeavesLog ==
    [][ /\ (last'.ran /\ ~last'.mutated) =>
              (last'.result = ErrorResult /\ log_text(fs', LogPath) = log_text(fs, LogPath))
        /\ log_text(fs', LogPath) # log_text(fs, LogPath) => last'.mutated ]_vars

\* the checksum a command logs: of the text written, of the whole file after
\* an append, none for a delete
LoggedChecksum(call, fsys) ==
    CASE call.cmd = "write_to_file" -> Some(text_checksum(call.text))
      [] call.cmd = "append_to_file" -> Some(text_checksum(fs_read(fsys, call.filename)))
      [] OTHER -> None

LoggedKind(call) ==
    CASE call.cmd = "write_to_file" -> "write"
      [] call.cmd = "append_to_file" -> "append"
      [] OTHER -> "delete"

\* C4 (as claimed): whenever write_to_file, append_to_file or delete_file has
\* completed its OS mutation (here on a file other than the log), the log has
\* grown by exactly the entry of that operation when the command returns,
\* whether or not the read-back or the append to the log failed.
C4_MutationIsRecorded ==
    [][ ( /\ last'.cmd \in {"write_to_file", "append_to_file", "delete_file"}
          /\ last'.mutated
          /\ last'.filename # LogPath )
        => log_text(fs', LogPath) =
              log_text(fs, LogPath)
                  \o log_entry(LoggedKind(last'), last'.filename, LoggedChecksum(last', fs')) ]_vars

\* C5 (as claimed): no command raises; every call returns a result string.
C5_NoCommandRaises == last.raised = "none"

\* does s begin with prefix
StartsWith(s, prefix) == OccursAt(s, prefix, 1)

\* a line that is not blank and not of the form "<kind>: <payload>" with kind
\* one of write, append, delete (after the legacy marker is removed and the
\* line trimmed)
MalformedText(line) ==
    /\ line # <<>>
    /\ \A kind \in {KindWrite, KindAppend, KindDelete} : ~StartsWith(line, kind \o <<":", " ">>)

Malformed(raw) == MalformedText(strip(remove_all(raw, Marker)))

RawLines == lines_of(log_text(fs, LogPath))

\* C6 (as claimed): when the log holds a malformed line, reading it raises, so
\* is_duplicate_operation raises instead of answering.
C6_MalformedLineRaises ==
    (IsProbe /\ \E i \in 1..Len(RawLines) : Malformed(RawLines[i])) => last.raised # "none"

\* C7 (as claimed): after log_operation(kind, path, checksum), reading the log
\* succeeds and its last entry has that kind, path and checksum.
C7_RoundTrip ==
    last.cmd = "log_operation" =>
        /\ operations_from_log(fs, LogPath).err = "none"
        /\ operations_from_log(fs, LogPath).entries # <<>>
        /\ operations_from_log(fs, LogPath).entries[Len(operations_from_log(fs, LogPath).entries)]
              = [op |-> last.op, path |-> last.filename, checksum |-> last.checksum]

ReconstructedState == file_operations_state(fs, LogPath)

\* C8 (as claimed): on a log that folds without error,
\* is_duplicate_operation('write', P, K) is true exactly when P is in the
\* reconstructed state with recorded checksum K, and so false whenever P is
\* absent, for every K including None.
C8_WriteGate ==
    (IsProbe /\ last.op = "write" /\ ReconstructedState.err = "none") =>
        /\ last.raised = "none"
        /\ last.dup <=> ( /\ last.filename \in DOMAIN ReconstructedState.state
                          /\ ReconstructedState.state[last.filename] = last.checksum )

\* C9: whenever the log folds without error, delete_file(P) returns the
\* duplicate result exactly when P is absent from the state reconstructed from
\* the log; a skipped call changes no file and appends nothing to the log; and
\* when P is in the state the call goes on to os.remove, which removes the
\* file unless it fails.
C9_DeleteGate ==
    [][ ( /\ last'.cmd = "delete_file"
          /\ ReconstructedState.err = "none" )
        => /\ last'.raised = "none"
           /\ last'.result = AlreadyDeleted <=> last'.filename \notin DOMAIN ReconstructedState.state
           /\ last'.result = AlreadyDeleted => (fs' = fs /\ ~last'.ran)
           /\ last'.filename \in DOMAIN ReconstructedState.state =>
                 /\ last'.ran
                 /\ last'.result = Deleted <=> (last'.filename \in DOMAIN fs /\ last'.fault = "none")
                 /\ last'.result = Deleted =>
                       (last'.filename # LogPath => last'.filename \notin DOMAIN fs')
                 /\ last'.result # Deleted => (last'.result = ErrorResult /\ fs' = fs) ]_vars

LogEntries == operations_from_log(fs, LogPath).entries

\* a delete of a path that the log already records as deleted has been skipped
C9_Witness ==
    /\ last.cmd = "delete_file"
    /\ last.result = AlreadyDeleted
    /\ LogEntries # <<>>
    /\ LogEntries[Len(LogEntries)] = [op |-> "delete", path |-> last.filename, checksum |-> None]

IsPrefix(s, t) == Len(s) <= Len(t) /\ SubSeq(t, 1, Len(s)) = s

\* C11 (as claimed): the log is append-only: for every command and every
\* argument, the log path as target included, the log before the call is a
\* prefix of the log after it.
C11_LogAppendOnly ==
    [][IsPrefix(log_text(fs, LogPath), log_text(fs', LogPath))]_vars

\* every line of the log is blank or of the form "<kind>: <payload>"
WellFormedLog == \A i \in 1..Len(RawLines) : ~Malformed(RawLines[i])

\* the lines of the log that are not blank
NonBlank(ls) == {i \in 1..Len(ls) : strip(remove_all(ls[i], Marker)) # <<>>}

MaxOf(S) == CHOOSE i \in S : \A j \in S : j <= i

\* the positions of the entries for path P, and the paths that have entries
EntryIndices(entries, P) == {i \in 1..Len(entries) : entries[i].path = P}
EntryPaths(entries) == {entries[i].path : i \in 1..Len(entries)}

\* P is tracked by the entries when its last entry is a write or an append
TrackedAt(entries, I) == I # {} /\ entries[MaxOf(I)].op \in {"write", "append"}

\* state is what the last entry of every path says
LastEntryWins(entries, state) ==
    \A P \in EntryPaths(entries) \cup GatePaths :
        /\ P \in DOMAIN state <=> TrackedAt(entries, EntryIndices(entries, P))
        /\ P \in DOMAIN state => state[P] = entries[MaxOf(EntryIndices(entries, P))].checksum

FoldIsLastEntry(ls, gen, st) ==
    /\ gen.err = "none"
    /\ Len(gen.entries) = Cardinality(NonBlank(ls))
    /\ st.err = "none"
    /\ LastEntryWins(gen.entries, st.state)

\* C12 (as claimed): for every well-formed log, file_operations_state returns
\* the mapping in which a path has the checksum of its last entry when that
\* entry is a write or an append, and is absent when it has no entry or its
\* last entry is a delete; every non-blank line is an entry.
C12_FoldOfEveryWellFormedLog ==
    WellFormedLog =>
        FoldIsLastEntry(RawLines, operations_from_log(fs, LogPath), ReconstructedState)

\* C12 (amended): the same, for every well-formed log on which the fold does
\* not reach a delete of a path that is untracked at that point (on such a
\* log file_operations_state raises and returns no mapping).
C12_FoldIsLastEntry ==
    (WellFormedLog /\ ReconstructedState.err = "none") =>
        FoldIsLastEntry(RawLines, operations_from_log(fs, LogPath), ReconstructedState)

\* a probe on the log "write: d/a #md5(x)", "append: d/a #md5()": the state
\* holds the checksum of the append
C12_Witness ==
    /\ IsProbe /\ last.raised = "none"
    /\ WellFormedLog
    /\ Len(LogEntries) = 2
    /\ LogEntries[1] = [op |-> "write", path |-> PathA, checksum |-> Some(Md5X)]
    /\ LogEntries[2] = [op |-> "append", path |-> PathA, checksum |-> Some(Md5Empty)]
    /\ ReconstructedState.state = [p \in {PathA} |-> Some(Md5Empty)]

\* the entries before position i
Before(entries, i) == SubSeq(entries, 1, i - 1)

\* entry i is a delete of a path that the entries before it leave untracked
UntrackedDelete(entries, i) ==
    /\ entries[i].op = "delete"
    /\ ~TrackedAt(Before(entries, i), EntryIndices(Before(entries, i), entries[i].path))

Inconsistent(entries) == \E i \in 1..Len(entries) : UntrackedDelete(entries, i)

\* C13: when the entries the fold is given hold a delete of a path that is
\* untracked at that point, file_operations_state raises (KeyError), and
\* is_duplicate_operation raises it for every operation, path and checksum.
C13_InconsistencyRaises ==
    /\ Inconsistent(LogEntries) => ReconstructedState.err = "KeyError"
    /\ (IsProbe /\ Inconsistent(LogEntries)) => (last.raised = "KeyError" /\ ~last.dup)

\* a probe for another path than the one deleted twice
C13_Witness ==
    /\ IsProbe /\ last.op = "write" /\ last.filename = PathB
    /\ log_text(fs, LogPath) = DoubleDeleteLog
    /\ UntrackedDelete(LogEntries, 3)
    /\ last.raised = "KeyError"

WriteThenDeleteAt(entries, I, P, K) ==
    /\ Cardinality(I) >= 2
    /\ entries[MaxOf(I)].op = "delete"
    /\ entries[MaxOf(I \ {MaxOf(I)})] = [op |-> "write", path |-> P, checksum |-> K]

WriteThenDelete(entries, P, K) == WriteThenDeleteAt(entries, EntryIndices(entries, P), P, K)

\* what the state and the gate say of such a path
Forgotten(st, P, K) ==
    /\ P \notin DOMAIN st.state
    /\ gate_answer(st, "delete", P, None).dup
    /\ ~gate_answer(st, "write", P, K).dup

ForgetsChecksum(entries, st) ==
    \A P \in Paths, K \in GateChecksums \ {None} :
        (st.err = "none" /\ WriteThenDelete(entries, P, K)) => Forgotten(st, P, K)

\* C15: whenever the log records a write of P with checksum K followed by a
\* delete of P, the reconstructed state has no key P, the gate answers true for
\* a delete of P and false for a write of P with K; and a write_to_file(P, C)
\* with checksum(C) = K called then, in which no OS call fails, is executed (it
\* returns success and the file holds C) and logged (the log grows by its
\* write entry).
C15_DeleteForgetsChecksum ==
    /\ [](ForgetsChecksum(LogEntries, ReconstructedState))
    /\ [][ ( /\ last'.cmd = "write_to_file" /\ NoFault(last')
             /\ ReconstructedState.err = "none"
             /\ WriteThenDelete(LogEntries, last'.filename, Some(text_checksum(last'.text))) )
           => /\ last'.result = Written
              /\ fs'[last'.filename] = last'.text
              /\ log_text(fs', LogPath) =
                    log_text(fs, LogPath)
                       \o log_entry("write", last'.filename, Some(text_checksum(last'.text)))
         ]_vars

\* write_to_file(d/a, x), delete_file(d/a), write_to_file(d/a, x): all three
\* are in the log
C15_Witness ==
    /\ last.cmd = "write_to_file" /\ last.result = Written
    /\ last.filename = PathA /\ last.text = <<"x">>
    /\ LogEntries = << [op |-> "write", path |-> PathA, checksum |-> Some(Md5X)],
                       [op |-> "delete", path |-> PathA, checksum |-> None],
                       [op |-> "write", path |-> PathA, checksum |-> Some(Md5X)] >>
    /\ fs[PathA] = <<"x">>

\* both processes have finished a write_to_file(P, C) that returned success
BothWrote(P, C) ==
    \A p \in Procs :
        /\ procs[p].pc = "idle" /\ procs[p].cmd = "write_to_file"
        /\ procs[p].filename = P /\ procs[p].text = C
        /\ procs[p].result = Written

WriteEntry(P, C) == [op |-> "write", path |-> P, checksum |-> Some(text_checksum(C))]

\* C16: in SpecRace a process that has passed the gate of write_to_file
\* appends its entry without looking at the log again; so when the two
\* processes have made one call each, write_to_file(P, C) with the same P and
\* C, and both returned success (the second gate check came before the first
\* log append), the file holds C and the log holds the entry
\* 'write: P #checksum(C)' twice in a row.
C16_RacePastTheGate ==
    /\ [][ \A p \in Procs :
             ( /\ procs[p].pc = "log" /\ procs[p].cmd = "write_to_file"
               /\ procs'[p].pc = "idle" )
             => /\ procs'[p].result = Written
                /\ log_text(fs', LogPath) =
                      log_text(fs, LogPath)
                         \o log_entry("write", procs[p].filename, procs[p].checksum) ]_vars
    /\ [](\A P \in RacePaths, C \in Texts :
             (nops = 2 /\ BothWrote(P, C)) =>
                 /\ fs[P] = C
                 /\ LogEntries = <<WriteEntry(P, C), WriteEntry(P, C)>>)

\* both processes wrote "x" to d/a and both logged it
C16_Witness ==
    /\ nops = 2
    /\ DOMAIN procs = Procs
    /\ BothWrote(PathA, <<"x">>)
    /\ log_text(fs, LogPath) =
          log_entry("write", PathA, Some(Md5X)) \o log_entry("write", PathA, Some(Md5X))

NonLogged == {"copy_file", "rename_file", "create_directory", "delete_directory",
              "rename_directory"}

\* C17 (as claimed): a command that does not log leaves the log content as it
\* was, whatever its arguments and its outcome.
C17_NonLoggedLeaveLog ==
    [][last'.cmd \in NonLogged => log_text(fs', LogPath) = log_text(fs, LogPath)]_vars

\* two calls with the same arguments
SameProbe(a, b) ==
    /\ a.cmd = "is_duplicate_operation" /\ b.cmd = "is_duplicate_operation"
    /\ a.op = b.op /\ a.filename = b.filename /\ a.checksum = b.checksum

C19_AppendDigestGatesWrite ==
    [][ ( /\ last.cmd = "append_to_file" /\ last.result = Appended /\ NoFault(last)
          /\ last.filename # LogPath
          /\ last'.cmd = "write_to_file" /\ last'.filename = last.filename )
        => /\ IsPrefix(log_entry("append", last.filename,
                                 Some(text_checksum(fs[last.filename]))),
                       SubSeq(fs[LogPath],
                              Len(fs[LogPath]) + 1
                                 - Len(log_entry("append", last.filename,
                                                 Some(text_checksum(fs[last.filename])))),
                              Len(fs[LogPath])))
           /\ last'.result = AlreadyUpdated
                 <=> text_checksum(last'.text) = text_checksum(fs[last.filename]) ]_vars

\* the file P holds the content whose checksum the state records for it
AgreesWithDisk(state, P) == P \in DOMAIN fs /\ Some(text_checksum(fs[P])) = state[P]

\* C20 (as claimed): after any sequence of write_to_file, append_to_file and
\* delete_file calls of one process on files other than the log, with no
\* failure of the log append, the log folds without error and every path of
\* the reconstructed state is a file whose content has the recorded checksum.
C20_LogAgreesWithFiles ==
    /\ ReconstructedState.err = "none"
    /\ \A P \in DOMAIN ReconstructedState.state : AgreesWithDisk(ReconstructedState.state, P)

\* C21 (as claimed): when write_to_file(P, C) returns the duplicate result the
\* file P exists with content C, and when delete_file(P) returns the duplicate
\* result the file P does not exist, whatever commands came before.  Stated
\* for the files P other than the log.
C21_SkippedIsAchieved ==
    /\ (last.cmd = "write_to_file" /\ last.result = AlreadyUpdated /\ last.filename # LogPath)
          => (IsFile(fs, last.filename) /\ fs[last.filename] = last.text)
    /\ (last.cmd = "delete_file" /\ last.result = AlreadyDeleted /\ last.filename # LogPath)
          => ~IsFile(fs, last.filename)

\* C22 (as claimed): after any sequence of write_to_file, append_to_file and
\* delete_file calls of one process on files other than the log, starting
\* without a log, the log holds no delete entry of a path that is untracked at
\* that point, and file_operations_state does not raise.
C22_SingleProcessLogFolds ==
    /\ ~Inconsistent(LogEntries)
    /\ ReconstructedState.err = "none"

\* C23 (as claimed): under every interleaving of the steps of the
\* write_to_file, append_to_file and delete_file calls of two processes, with
\* untorn appends, the log holds no delete entry of a path that is untracked
\* at that point, and file_operations_state does not raise.
C23_RaceLogFolds ==
    /\ ReconstructedState.err = "none"
    /\ ~Inconsistent(LogEntries)

\* the payload of a line: what follows its first ": "
KindOf(line) == split1(line, <<":", " ">>)[1]
PayloadOf(line) == split1(line, <<":", " ">>)[2]

\* path and checksum of a payload cut at its rightmost " #"
CutAtMarker(op, payload, i) ==
    IF i = 0 THEN [op |-> op, path |-> payload, checksum |-> None]
    ELSE [op |-> op, path |-> SubSeq(payload, 1, i - 1),
          checksum |-> Some(SubSeq(payload, i + 2, Len(payload)))]

\* the entry a line stands for, as a sequence of none or one
EntryOfLine(line) ==
    IF strip(line) = <<>> \/ Len(split1(line, <<":", " ">>)) # 2 THEN <<>>
    ELSE IF KindOf(line) = KindWrite
    THEN <<CutAtMarker("write", PayloadOf(line), rfind(PayloadOf(line), <<" ", "#">>))>>
    ELSE IF KindOf(line) = KindAppend
    THEN <<CutAtMarker("append", PayloadOf(line), rfind(PayloadOf(line), <<" ", "#">>))>>
    ELSE IF KindOf(line) = KindDelete
    THEN <<[op |-> "delete", path |-> PayloadOf(line), checksum |-> None]>>
    ELSE <<>>

RECURSIVE EntriesOfLines(_)
EntriesOfLines(ls) ==
    IF ls = <<>> THEN <<>> ELSE EntryOfLine(Head(ls)) \o EntriesOfLines(Tail(ls))

\* C24 (as claimed): when the log reads without error, its entries are, in file
\* order, those of its non-blank lines: for a write or append line the payload
\* cut at its rightmost " #", the text before it as path and the text after it
\* as checksum, no checksum when there is no " #"; for a delete line the whole
\* payload as path and no checksum.
C24_ReaderFieldSplitting ==
    operations_from_log(fs, LogPath).err = "none"
        => LogEntries = EntriesOfLines(lines_of(log_text(fs, LogPath)))

\* position i of the content (from 0) lies in chunk c
Covers(c, i) == c.start <= i /\ i < c.start + Len(c.text)

\* C25 (as claimed): when split_file has returned, every character position
\* of the content lies in at least one chunk, every chunk is a contiguous
\* slice of the content, the chunks come in increasing start order, and a
\* non-empty content has yielded at least one chunk.
C25_SplitCoversContent ==
    split.pc = "done" =>
        /\ \A i \in 0..(Len(split.content) - 1) :
              \E k \in 1..Len(split.chunks) : Covers(split.chunks[k], i)
        /\ \A k \in 1..Len(split.chunks) :
              split.chunks[k].text
                 = Slice(split.content, split.chunks[k].start,
                         split.chunks[k].start + Len(split.chunks[k].text))
        /\ \A k \in 1..Len(split.chunks), l \in 1..Len(split.chunks) :
              k < l => split.chunks[k].start < split.chunks[l].start
        /\ split.content # <<>> => split.chunks # <<>>

\* C26 (as claimed): every chunk split_file yields has at most max_length
\* characters.
C26_ChunkWithinMaxLength ==
    split.pc # "none" =>
        \A k \in 1..Len(split.chunks) : Len(split.chunks[k].text) <= split.max_length

\* C27: split_file returns: every run of the generator reaches its end, the
\* start index grows on every iteration that yields, and it yields no more
\* chunks than the content has characters.
C27_SplitTerminates ==
    /\ <>(split.pc = "done")
    /\ [][split'.chunks # split.chunks => split'.start > split.start]_vars
    /\ [](Len(split.chunks) <= Len(split.content))

\* a finished run that went through the loop several times
C27_Witness ==
    /\ split.pc = "done"
    /\ Len(split.chunks) >= 3
    /\ split.overlap > 0

\* C28 (as claimed): after checkout_branch(repo, B) returned one of its two
\* success results, the active branch of the repository is B, whether B
\* existed before the call or was created by it.
C28_CheckoutSwitches ==
    (last.cmd = "checkout_branch" /\ last.result \in {Created, Switched})
        => (last.filename \in repo.heads /\ repo.active = last.filename)

====
